---- MODULE Spec2Model ----
(***************************************************************************)
(* Voice-activity segmentation and dispatch of the voxtral voice agent.    *)
(*                                                                         *)
(* Three programs of the repository segment a microphone stream into       *)
(* utterances: the agent (agent/voice_processor.py, driven by              *)
(* agent/agent_main.py), the GTK tray (scripts/voxtral_tray_gtk.py) and    *)
(* the stable tray (scripts/voxtral_tray_stable.py).  The variable         *)
(* `program` says which of them a behaviour is a run of.                   *)
(*                                                                         *)
(* Units: wall-clock time is in milliseconds, amplitudes are in units of   *)
(* 0.001 of full scale, durations of audio are sample counts.              *)
(***************************************************************************)
EXTENDS Integers, Sequences, FiniteSets, TLC

VARIABLES
    program,            \* "agent", "gtk" or "stable": the process that runs
    feed,               \* what the microphone will deliver: anything, or a script
    \* ---- VoiceProcessor fields (voice_processor.py __init__)
    is_recording,
    is_listening,
    sample_rate,
    chunk_size,
    audio_buffer,       \* deque(maxlen = sample_rate * 30) of samples
    recording_buffer,   \* list of samples
    last_voice_time,
    stop_event,
    \* ---- threads of the agent
    capPc,              \* capture thread of each start_listening
    loopPc,             \* processing thread of each start_listening
    loopFrame,          \* its local `frame`
    loopSpeech,         \* its local `is_speech`
    loopNow,            \* its local `current_time`
    loopPcm,            \* `pcm_frame` of its _detect_voice_activity call
    evPc,               \* what the asyncio thread is executing
    tasks,              \* tasks scheduled on the running event loop, FIFO
    inflight,           \* consumer invocations awaiting their result
    \* ---- environment
    clock,              \* time.time()
    captured,           \* samples delivered by the audio hardware so far
    ncallbacks,
    nstarts,
    nforce,
    overlap,            \* frames the loops started while force_stop_recording runs
    \* ---- history (written, never read, by the program)
    nfinalized,         \* audio_data snapshots taken by _stop_recording so far
    delivered,          \* the invocations of transcription_callback: id, outcome
    excepts,            \* exceptions caught by the processing loops
    ignored,            \* recordings _process_audio ignored as too short
    npopped,            \* samples popped from audio_buffer
    fsAccum,            \* recording_buffer as force_stop_recording found it
    joinStart,          \* when the join stop_listening is waiting in began
    \* ---- the trays: fields of the tray object
    is_continuous,      \* is_continuous_listening (GTK), is_continuous (stable)
    should_stop_continuous,
    audio_buffer_count,
    last_cleanup,
    \* ---- the trays: dictation loop threads, one per toggle-on, and their locals
    trayPc,
    is_speaking,
    silence_start,      \* <<>> for None, <<t>> for the time t
    tray_audio_buffer,  \* the loop's audio_buffer, in chunks
    workers,            \* the worker threads started so far: audio_data, pc
    \* ---- the trays: environment and history
    nreads,             \* stream.read calls so far
    lastAmp,            \* amplitude of the chunk read last
    nswitches,          \* changes of amplitude between consecutive chunks
    noverflows,
    ntoggles,
    transcribed,        \* what whisper_model.transcribe was given, in call order
    tray_ignored,       \* recordings a worker ignored as too short
    \* ---- HotkeyManager: fields, configuration and environment
    pressed_keys,
    voice_active,
    toggle_mode,        \* config.toggle_mode
    held,               \* the physical keys that are down
    npress,             \* key press events delivered so far
    nrelease            \* key release events delivered so far

agentVars == <<is_recording, is_listening, sample_rate, chunk_size, audio_buffer,
               recording_buffer, last_voice_time, stop_event, capPc, loopPc,
               loopFrame, loopSpeech, loopNow, loopPcm, evPc, tasks, inflight,
               captured,
               ncallbacks, nstarts, nforce, overlap, nfinalized, delivered,
               excepts, ignored, npopped, fsAccum, joinStart>>

trayVars == <<is_continuous, should_stop_continuous, audio_buffer_count,
              last_cleanup, trayPc, is_speaking, silence_start,
              tray_audio_buffer, workers, nreads, lastAmp, nswitches,
              noverflows, ntoggles, transcribed, tray_ignored>>

hotkeyVars == <<pressed_keys, voice_active, toggle_mode, held, npress, nrelease>>

vars == <<program, feed, clock, agentVars, trayVars, hotkeyVars>>

----------------------------------------------------------------------------
(* Bounds of the model *)

\* start_listening calls in one behaviour
MaxStarts == 1
\* start_listening calls after a stop_listening, where a behaviour restarts
MaxRestarts == 1
\* samples of a block of the microphone in such a behaviour
RestartChunk == 4
\* ms the stable tray has been up when a behaviour of SpecUptime begins
Uptime == 31000
\* toggle-on calls after a toggle-off, where a behaviour switches on again
MaxTrayRestarts == 1
\* key events the keyboard listener delivers in one behaviour
MaxKeyEvents == 6
\* the block size of the two-sample-frame overflow configuration: two blocks
\* overflow a ring of 2010 samples
FrameRingChunk == 1100
\* hardware callbacks in one behaviour
MaxCallbacks == 2
\* steps of the wall clock in one behaviour
MaxTicks == 3
\* external force_stop_recording calls in one behaviour
MaxForceStops == 2
\* frames the processing loops take out of the ring in one behaviour of a free
\* microphone
MaxFrames == 34
\* frames a processing loop may start while one force_stop_recording call runs
MaxOverlap == 0
\* the sample rate of the small configuration (samples per second)
SmallRate == 67
\* the block size of the small configuration (samples per callback)
SmallChunk == 34
\* the sample rate of the overflow configuration: a ring of 1020 samples
RingRate == 34
\* the block size of the overflow configuration: two blocks overflow the ring
RingChunk == 600
\* the sample rate of the scripted runs: the seconds of the 16 kHz runs at 200
\* samples per second, so that a frame of 30 ms is 6 samples
ScenarioRate == 200
\* the block size of the scripted runs: 0.1 s
ScenarioChunk == 20

----------------------------------------------------------------------------
(* Program constants *)

\* frame_duration = 30  (ms)
frame_duration == 30
\* deque(maxlen=int(self.sample_rate * 30)): seconds retained
buffer_seconds == 30
\* config "silence_duration" default 2.0 s, in ms
silence_duration == 2000
\* config "silence_threshold" default 0.01, in amplitude units of 0.001
silence_threshold == 10
\* join(timeout=2), in ms
join_timeout == 2000
\* one step of the wall clock, in ms
TickMs == 1000

\* config "sample_rate" default 16000
default_sample_rate == 16000
\* config "chunk_size" default 1024
default_chunk_size == 1024

\* (frame * 32767): full scale of 16-bit PCM
pcm_scale == 32767
\* np.clip(padded_data, -1.0, 1.0): full scale of a float sample, in thousandths
full_scale == 1000
\* amplitude of a sample the hardware delivers above full scale
Overdriven == 1500

\* amplitude of a sample of a loud block and of a quiet block
Loud == 30
Quiet == 0

LoopIds == 1..(MaxStarts + MaxRestarts)

\* A sample: its capture index and its amplitude.
Sample(i, a) == <<i, a>>
SampleId(s) == s[1]
SampleAmp(s) == s[2]

\* frame_size = int(self.sample_rate * frame_duration / 1000)
frame_size(rate) == (rate * frame_duration) \div 1000

\* int(self.sample_rate * 30)
BufferMaxLen(rate) == rate * buffer_seconds

\* A bounded buffer that refuses what does not fit: it keeps its oldest
\* samples and drops the newest.
DequeExtendDropsNewest(buf, data, maxlen) ==
    LET all == buf \o data
    IN  IF Len(all) <= maxlen THEN all ELSE SubSeq(all, 1, maxlen)

\* duration < 0.25 in place of duration < 0.5
TooShortQuarter(n, rate) == 4 * n < rate

\* deque.extend on a deque with maxlen: append at the tail, then drop from the
\* head what exceeds maxlen.
DequeExtend(buf, data, maxlen) ==
    LET all == buf \o data
    IN  IF Len(all) <= maxlen THEN all
        ELSE SubSeq(all, Len(all) - maxlen + 1, Len(all))

\* duration = len(audio_data) / self.sample_rate; duration < 0.5
TooShort(n, rate) == 2 * n < rate

\* np.sum(frame ** 2), summed by halves
RECURSIVE SumSq(_)
SumSq(frame) ==
    IF frame = <<>> THEN 0
    ELSE IF Len(frame) = 1 THEN SampleAmp(frame[1]) * SampleAmp(frame[1])
    ELSE LET h == Len(frame) \div 2
         IN  SumSq(SubSeq(frame, 1, h)) + SumSq(SubSeq(frame, h + 1, Len(frame)))

\* np.sqrt(np.mean(frame ** 2)) > self.silence_threshold
EnergySpeech(frame) ==
    SumSq(frame) > Len(frame) * silence_threshold * silence_threshold

\* webrtcvad accepts 8000, 16000, 32000 and 48000 Hz and raises otherwise;
\* on a valid frame its answer is the classifier's, an input of the model.
VadOutcomes(rate) ==
    IF rate \in {8000, 16000, 32000, 48000} THEN {"speech", "nonspeech"}
    ELSE {"raise"}

\* int(): truncation toward zero of n / d
Trunc(n, d) == IF n >= 0 THEN n \div d ELSE -((-n) \div d)

\* frame * 32767, amplitudes being in thousandths of full scale
Scaled(a) == Trunc(a * pcm_scale, full_scale)

\* astype(np.int16) of a value outside the int16 range is an undefined C
\* cast: a build keeps the low 16 bits of the wider integer (two's
\* complement wrap-around) or saturates at the ends of the range.
CastOutcomes == {"wrap", "saturate"}
Int16Cast(v, cast) ==
    IF v >= -32768 /\ v <= 32767 THEN v
    ELSE IF cast = "wrap" THEN ((v + 32768) % 65536) - 32768
    ELSE IF v > 0 THEN 32767 ELSE -32768

\* line 168: pcm_frame = (frame * 32767).astype(np.int16)
PcmFrame(frame, cast) ==
    [i \in 1..Len(frame) |-> Int16Cast(Scaled(SampleAmp(frame[i])), cast)]

\* np.clip(x, -1.0, 1.0)
Clip(a) == IF a > full_scale THEN full_scale
           ELSE IF a < -full_scale THEN -full_scale ELSE a

\* voxtral_tray_gtk line 442-443: clamp, then scale and cast
GtkPcm(a, cast) == Int16Cast(Scaled(Clip(a)), cast)

\* A detector that wants both signals: AND in place of OR.
DetectVoiceActivityBoth(frame, vad) ==
    IF vad = "raise" THEN EnergySpeech(frame)
    ELSE (vad = "speech") /\ EnergySpeech(frame)

\* _detect_voice_activity: OR of the two signals, energy alone when the
\* classifier raises.
DetectVoiceActivity(frame, vad) ==
    IF vad = "raise" THEN EnergySpeech(frame)
    ELSE (vad = "speech") \/ EnergySpeech(frame)

----------------------------------------------------------------------------
(* HotkeyManager: the pynput listener thread delivers key events *)

\* The physical keys of the model: both control keys, one alt key and a
\* character key.
Keys == {"ctrl_l", "ctrl_r", "alt_l", "t"}

\* _key_to_string: the left and the right key of a modifier have one name
KeyToString(key) ==
    IF key \in {"ctrl_l", "ctrl_r"} THEN "ctrl"
    ELSE IF key \in {"alt_l", "alt_r"} THEN "alt"
    ELSE key

\* config "activation_keys" default ["ctrl", "alt"]
required_keys == {"ctrl", "alt"}

\* _is_hotkey_pressed: required_keys.issubset(self.pressed_keys)
IsHotkeyPressed(pressed) == required_keys \subseteq pressed

\* _handle_hotkey_activation followed by _activate_voice or _deactivate_voice:
\* the value of voice_active it leaves
HandleHotkeyActivation(toggle, active) ==
    IF toggle THEN ~active ELSE TRUE

\* _on_key_press line 138-145: the value of voice_active the handler leaves
\* when pressed_keys goes from `before` to `after`
OnPressActive(before, after, toggle, active) ==
    IF IsHotkeyPressed(after)
    THEN HandleHotkeyActivation(toggle, active)
    ELSE active

InitHotkeyState ==
    /\ pressed_keys = {}
    /\ voice_active = FALSE
    /\ toggle_mode \in (IF program = "hotkey" THEN BOOLEAN ELSE {TRUE})
    /\ held = {}
    /\ npress = 0
    /\ nrelease = 0

\* _on_key_press: a key goes down, or a key that is down repeats
OnKeyPress(key) ==
    /\ program = "hotkey"
    /\ npress + nrelease < MaxKeyEvents
    /\ npress' = npress + 1
    /\ held' = held \cup {key}
    /\ pressed_keys' = pressed_keys \cup {KeyToString(key)}
    /\ voice_active' = OnPressActive(pressed_keys,
                                      pressed_keys \cup {KeyToString(key)},
                                      toggle_mode, voice_active)
    /\ UNCHANGED <<program, feed, clock, agentVars, trayVars, toggle_mode, nrelease>>

\* _on_key_release: a key that is down goes up; push-to-talk deactivates
\* when the combination is no longer pressed
OnKeyRelease(key) ==
    /\ program = "hotkey"
    /\ npress + nrelease < MaxKeyEvents
    /\ key \in held
    /\ nrelease' = nrelease + 1
    /\ held' = held \ {key}
    /\ pressed_keys' = pressed_keys \ {KeyToString(key)}
    /\ voice_active' =
           IF ~toggle_mode /\ ~IsHotkeyPressed(pressed_keys \ {KeyToString(key)})
           THEN FALSE ELSE voice_active
    /\ UNCHANGED <<program, feed, clock, agentVars, trayVars, toggle_mode, npress>>

----------------------------------------------------------------------------
(* The agent: VoiceProcessor and the asyncio thread that owns it *)

\* The elapsed time taken for seconds where it is in ms: the timeout is a
\* thousand times too long.
SilenceElapsedWrongUnit(now, lvt) == now - lvt >= silence_duration * 1000

\* The comparison with > in place of >=: a frame processed exactly
\* silence_duration after the last voiced one does not finalize.
SilenceElapsedStrict(now, lvt) == now - lvt > silence_duration

\* silence_duration = current_time - self.last_voice_time;
\* silence_duration >= self.silence_duration
SilenceElapsed(now, lvt) == now - lvt >= silence_duration

\* The block the hardware delivers next: chunk_size samples of one amplitude.
Block(first, n, amp) == [i \in 1..n |-> Sample(first + i, amp)]

\* A microphone that may deliver anything at any time.
FreeFeed == [paced |-> FALSE, voiced |-> 0, silent |-> 0, cycles |-> 0]

\* A scripted microphone: v loud blocks, then q quiet ones, one block per block
\* duration of wall-clock time, to a processing loop that keeps up with it.
ScriptFeed(v, q) == [paced |-> TRUE, voiced |-> v, silent |-> q, cycles |-> 1]

\* The same script c times over: c utterances, each followed by a pause.
RepeatFeed(v, q, c) == [paced |-> TRUE, voiced |-> v, silent |-> q, cycles |-> c]

\* The number of blocks of the script.
ScriptLen == feed.cycles * (feed.voiced + feed.silent)

\* The amplitude of the n-th block of the script.
ScriptAmp(n) ==
    IF ((n - 1) % (feed.voiced + feed.silent)) + 1 <= feed.voiced
    THEN Loud ELSE Quiet

\* The wall-clock duration of one block, in ms.
BlockMs == (chunk_size * 1000) \div sample_rate

\* The audio_data snapshot _stop_recording takes, with who took it.
Snapshot(who) ==
    [id |-> nfinalized + 1, samples |-> recording_buffer, by |-> who]

InitAgentState ==
    /\ is_recording = FALSE
    /\ is_listening = FALSE
    /\ audio_buffer = <<>>
    /\ recording_buffer = <<>>
    /\ last_voice_time = 0
    /\ stop_event = FALSE
    /\ capPc = [k \in LoopIds |-> "none"]
    /\ loopPc = [k \in LoopIds |-> "none"]
    /\ loopFrame = [k \in LoopIds |-> <<>>]
    /\ loopSpeech = [k \in LoopIds |-> FALSE]
    /\ loopNow = [k \in LoopIds |-> 0]
    /\ loopPcm = [k \in LoopIds |-> <<>>]
    /\ evPc = "idle"
    /\ tasks = <<>>
    /\ inflight = {}
    /\ clock = 0
    /\ captured = 0
    /\ ncallbacks = 0
    /\ nstarts = 0
    /\ nforce = 0
    /\ overlap = 0
    /\ nfinalized = 0
    /\ delivered = <<>>
    /\ excepts = 0
    /\ ignored = 0
    /\ npopped = 0
    /\ fsAccum = <<>>
    /\ joinStart = 0

\* Samples the processing loops have taken out of audio_buffer so far.
Consumed == npopped

\* Bound on the environment of the agent: what comes from outside (a
\* force-stop, a stop, the end of a consumer invocation, a step of the wall
\* clock) comes while the loop handles the first frame of the stream or the
\* last frame of a block.
SignalPoint ==
    \/ program # "agent"
    \/ Consumed = frame_size(sample_rate)
    \/ \E n \in 1..MaxCallbacks : Consumed = n * chunk_size

\* start_listening, called on the asyncio thread (VoxtralAgent.start), in a
\* behaviour of at most `limit` calls that start threads
StartListeningUpTo(limit) ==
    /\ program = "agent"
    /\ evPc = "idle"
    /\ IF is_listening
       THEN UNCHANGED <<is_listening, stop_event, capPc, loopPc, nstarts>>
       ELSE /\ nstarts < limit
            /\ is_listening' = TRUE
            /\ stop_event' = FALSE
            /\ nstarts' = nstarts + 1
            /\ capPc' = [capPc EXCEPT ![nstarts + 1] = "opening"]
            /\ loopPc' = [loopPc EXCEPT ![nstarts + 1] = "top"]
    /\ UNCHANGED <<hotkeyVars, trayVars, loopPcm, joinStart, ignored, npopped, fsAccum, overlap, program, feed, clock, is_recording, sample_rate, chunk_size,
                   audio_buffer, recording_buffer, last_voice_time, loopFrame,
                   loopSpeech, loopNow, evPc, tasks, inflight, captured,
                   ncallbacks, nforce, nfinalized, delivered, excepts>>

StartListening == StartListeningUpTo(MaxStarts)

\* start_listening in a behaviour that stops the processor and starts it again
StartListeningAgain == StartListeningUpTo(MaxStarts + MaxRestarts)

\* The thread a join of stop_listening waits for has ended.
Ended(pc) == pc \in {"none", "exited"}

\* stop_listening, line 75-83 (VoxtralAgent.stop): the flags, and the join of
\* audio_thread begins if the thread is alive
StopListening ==
    /\ program = "agent"
    /\ evPc = "idle"
    /\ is_listening
    /\ ~feed.paced
    /\ SignalPoint
    /\ is_listening' = FALSE
    /\ stop_event' = TRUE
    /\ evPc' = "join_audio"
    /\ joinStart' = clock
    /\ UNCHANGED <<hotkeyVars, trayVars, loopPcm, ignored, npopped, fsAccum, overlap, program, feed, clock, is_recording, sample_rate, chunk_size,
                   audio_buffer, recording_buffer, last_voice_time, capPc,
                   loopPc, loopFrame, loopSpeech, loopNow, tasks, inflight,
                   captured, ncallbacks, nstarts, nforce, nfinalized, delivered,
                   excepts>>

\* line 82-83: audio_thread.join(timeout=2) returns, because the capture
\* thread has ended or because 2 s have passed; line 85: the join of
\* processing_thread begins
JoinAudio ==
    /\ evPc = "join_audio"
    /\ Ended(capPc[nstarts]) \/ clock - joinStart >= join_timeout
    /\ evPc' = "join_processing"
    /\ joinStart' = clock
    /\ UNCHANGED <<hotkeyVars, trayVars, loopPcm, ignored, npopped, fsAccum, overlap, program, feed, clock, is_recording, is_listening, sample_rate,
                   chunk_size, audio_buffer, recording_buffer, last_voice_time,
                   stop_event, capPc, loopPc, loopFrame, loopSpeech, loopNow,
                   tasks, inflight, captured, ncallbacks, nstarts, nforce,
                   nfinalized, delivered, excepts>>

\* line 85-88: processing_thread.join(timeout=2) returns, because the
\* processing thread has ended or because 2 s have passed, and stop_listening
\* returns
JoinProcessing ==
    /\ evPc = "join_processing"
    /\ Ended(loopPc[nstarts]) \/ clock - joinStart >= join_timeout
    /\ evPc' = "idle"
    /\ UNCHANGED <<hotkeyVars, trayVars, loopPcm, joinStart, ignored, npopped, fsAccum, overlap, program, feed, clock, is_recording, is_listening, sample_rate,
                   chunk_size, audio_buffer, recording_buffer, last_voice_time,
                   stop_event, capPc, loopPc, loopFrame, loopSpeech, loopNow,
                   tasks, inflight, captured, ncallbacks, nstarts, nforce,
                   nfinalized, delivered, excepts>>

\* _audio_capture_loop: sd.InputStream opens, or raises and the loop ends
OpenStream(k, ok) ==
    /\ capPc[k] = "opening"
    /\ capPc' = [capPc EXCEPT ![k] = IF ok THEN "open" ELSE "exited"]
    /\ UNCHANGED <<hotkeyVars, trayVars, loopPcm, joinStart, ignored, npopped, fsAccum, overlap, program, feed, clock, is_recording, is_listening, sample_rate,
                   chunk_size, audio_buffer, recording_buffer, last_voice_time,
                   stop_event, loopPc, loopFrame, loopSpeech, loopNow, evPc,
                   tasks, inflight, captured, ncallbacks, nstarts, nforce,
                   nfinalized, delivered, excepts>>

\* _audio_capture_loop: stop_event.wait(0.1) returns True, the stream closes
CaptureExit(k) ==
    /\ capPc[k] = "open"
    /\ stop_event
    /\ capPc' = [capPc EXCEPT ![k] = "exited"]
    /\ UNCHANGED <<hotkeyVars, trayVars, loopPcm, joinStart, ignored, npopped, fsAccum, overlap, program, feed, clock, is_recording, is_listening, sample_rate,
                   chunk_size, audio_buffer, recording_buffer, last_voice_time,
                   stop_event, loopPc, loopFrame, loopSpeech, loopNow, evPc,
                   tasks, inflight, captured, ncallbacks, nstarts, nforce,
                   nfinalized, delivered, excepts>>

\* _audio_callback: one block of mono input of amplitude amp
AudioCallback(k, amp) ==
    /\ capPc[k] = "open"
    /\ IF feed.paced
       THEN /\ ncallbacks < ScriptLen
            /\ amp = ScriptAmp(ncallbacks + 1)
            /\ \A j \in LoopIds : ~Ended(loopPc[j]) => loopPc[j] = "top"
            /\ Len(audio_buffer) < frame_size(sample_rate)
            /\ clock' = clock + BlockMs
       ELSE /\ ncallbacks < MaxCallbacks
            /\ UNCHANGED clock
    /\ audio_buffer' = DequeExtend(audio_buffer,
                                   Block(captured, chunk_size, amp),
                                   BufferMaxLen(sample_rate))
    /\ captured' = captured + chunk_size
    /\ ncallbacks' = ncallbacks + 1
    /\ UNCHANGED <<hotkeyVars, trayVars, loopPcm, joinStart, ignored, npopped, fsAccum, overlap, program, feed, is_recording, is_listening, sample_rate,
                   chunk_size, recording_buffer, last_voice_time, stop_event,
                   capPc, loopPc, loopFrame, loopSpeech, loopNow, evPc, tasks,
                   inflight, nstarts, nforce, nfinalized, delivered, excepts>>

\* the wall clock advances
Tick ==
    /\ ~feed.paced
    /\ clock < MaxTicks * TickMs
    /\ SignalPoint
    /\ clock' = clock + TickMs
    /\ UNCHANGED <<hotkeyVars, trayVars, program, feed, agentVars>>

----------------------------------------------------------------------------
(* _processing_loop, one thread per start_listening.  Each action is one     *)
(* access to state shared with another thread.                               *)

cfgVars == <<program, feed, sample_rate, chunk_size>>
lifeVars == <<is_listening, stop_event, capPc, nstarts, joinStart>>
evVars == <<evPc, tasks, inflight, nforce>>
FsPcs == {"fs_check", "stop_check", "stop_set", "stop_len", "stop_reset"}

GoTo(k, pc) == loopPc' = [loopPc EXCEPT ![k] = pc]

\* A loop that takes no frame while a consumer invocation is running.
LoopTopWaitsForConsumer(k) ==
    /\ loopPc[k] = "top"
    /\ IF stop_event
       THEN GoTo(k, "exited") /\ UNCHANGED <<loopFrame, loopPcm, overlap>>
       ELSE /\ inflight = {}
            /\ Len(audio_buffer) >= frame_size(sample_rate)
            /\ feed.paced \/ npopped < MaxFrames * frame_size(sample_rate)
            /\ evPc \in FsPcs => overlap < MaxOverlap
            /\ overlap' = IF evPc \in FsPcs THEN overlap + 1 ELSE overlap
            /\ GoTo(k, "extract")
            /\ loopFrame' = [loopFrame EXCEPT ![k] = <<>>]
            /\ loopPcm' = [loopPcm EXCEPT ![k] = <<>>]
    /\ UNCHANGED <<hotkeyVars, trayVars, ignored, npopped, fsAccum, cfgVars, lifeVars, evVars, clock, is_recording, audio_buffer,
                   recording_buffer, last_voice_time, loopSpeech, loopNow,
                   captured, ncallbacks, nfinalized, delivered, excepts>>

\* line 127-132: the while condition and the test for a whole frame
LoopTop(k) ==
    /\ loopPc[k] = "top"
    /\ IF stop_event
       THEN GoTo(k, "exited") /\ UNCHANGED <<loopFrame, loopPcm, overlap>>
       ELSE /\ Len(audio_buffer) >= frame_size(sample_rate)
            /\ feed.paced \/ npopped < MaxFrames * frame_size(sample_rate)
            /\ evPc \in FsPcs => overlap < MaxOverlap
            /\ overlap' = IF evPc \in FsPcs THEN overlap + 1 ELSE overlap
            /\ GoTo(k, "extract")
            /\ loopFrame' = [loopFrame EXCEPT ![k] = <<>>]
            /\ loopPcm' = [loopPcm EXCEPT ![k] = <<>>]
    /\ UNCHANGED <<hotkeyVars, trayVars, ignored, npopped, fsAccum, cfgVars, lifeVars, evVars, clock, is_recording, audio_buffer,
                   recording_buffer, last_voice_time, loopSpeech, loopNow,
                   captured, ncallbacks, nfinalized, delivered, excepts>>

\* pop() in place of popleft(): the frame is taken from the newest end.
LoopExtractPopsRight(k) ==
    /\ loopPc[k] = "extract"
    /\ IF audio_buffer = <<>>
       THEN \* IndexError: pop from an empty deque
            /\ GoTo(k, "except")
            /\ UNCHANGED <<audio_buffer, loopFrame, npopped>>
       ELSE /\ audio_buffer' = SubSeq(audio_buffer, 1, Len(audio_buffer) - 1)
            /\ npopped' = npopped + 1
            /\ loopFrame' = [loopFrame EXCEPT ![k] = Append(@, audio_buffer[Len(audio_buffer)])]
            /\ GoTo(k, IF Len(loopFrame[k]) + 1 = frame_size(sample_rate)
                       THEN "detect" ELSE "extract")
    /\ UNCHANGED <<hotkeyVars, trayVars, loopPcm, ignored, fsAccum, overlap, cfgVars, lifeVars, evVars, clock, is_recording,
                   recording_buffer, last_voice_time, loopSpeech, loopNow,
                   captured, ncallbacks, nfinalized, delivered, excepts>>

\* line 135: one self.audio_buffer.popleft() of the frame_size pops
LoopExtract(k) ==
    /\ loopPc[k] = "extract"
    /\ IF audio_buffer = <<>>
       THEN \* IndexError: pop from an empty deque
            /\ GoTo(k, "except")
            /\ UNCHANGED <<audio_buffer, loopFrame, npopped>>
       ELSE /\ audio_buffer' = Tail(audio_buffer)
            /\ npopped' = npopped + 1
            /\ loopFrame' = [loopFrame EXCEPT ![k] = Append(@, Head(audio_buffer))]
            /\ GoTo(k, IF Len(loopFrame[k]) + 1 = frame_size(sample_rate)
                       THEN "detect" ELSE "extract")
    /\ UNCHANGED <<hotkeyVars, trayVars, loopPcm, ignored, fsAccum, overlap, cfgVars, lifeVars, evVars, clock, is_recording,
                   recording_buffer, last_voice_time, loopSpeech, loopNow,
                   captured, ncallbacks, nfinalized, delivered, excepts>>

\* line 138-139: is_speech and current_time
LoopDetect(k, vad) ==
    /\ loopPc[k] = "detect"
    /\ \E cast \in CastOutcomes :
           loopPcm' = [loopPcm EXCEPT ![k] = PcmFrame(loopFrame[k], cast)]
    /\ loopSpeech' = [loopSpeech EXCEPT ![k] = DetectVoiceActivity(loopFrame[k], vad)]
    /\ loopNow' = [loopNow EXCEPT ![k] = clock]
    /\ GoTo(k, IF DetectVoiceActivity(loopFrame[k], vad) THEN "voiced" ELSE "unvoiced")
    /\ UNCHANGED <<hotkeyVars, trayVars, ignored, npopped, fsAccum, overlap, cfgVars, lifeVars, evVars, clock, is_recording, audio_buffer,
                   recording_buffer, last_voice_time, loopFrame, captured,
                   ncallbacks, nfinalized, delivered, excepts>>

\* line 141-144: a voiced frame refreshes last_voice_time
LoopVoiced(k) ==
    /\ loopPc[k] = "voiced"
    /\ last_voice_time' = loopNow[k]
    /\ GoTo(k, IF is_recording THEN "extend" ELSE "start")
    /\ UNCHANGED <<hotkeyVars, trayVars, loopPcm, ignored, npopped, fsAccum, overlap, cfgVars, lifeVars, evVars, clock, is_recording, audio_buffer,
                   recording_buffer, loopFrame, loopSpeech, loopNow, captured,
                   ncallbacks, nfinalized, delivered, excepts>>

\* _start_recording, line 191-195
LoopStart(k) ==
    /\ loopPc[k] = "start"
    /\ IF is_recording
       THEN GoTo(k, "extend") /\ UNCHANGED is_recording
       ELSE GoTo(k, "start_reset") /\ is_recording' = TRUE
    /\ UNCHANGED <<hotkeyVars, trayVars, loopPcm, ignored, npopped, fsAccum, overlap, cfgVars, lifeVars, evVars, clock, audio_buffer,
                   recording_buffer, last_voice_time, loopFrame, loopSpeech,
                   loopNow, captured, ncallbacks, nfinalized, delivered, excepts>>

\* _start_recording, line 196
LoopStartReset(k) ==
    /\ loopPc[k] = "start_reset"
    /\ recording_buffer' = <<>>
    /\ GoTo(k, "extend")
    /\ UNCHANGED <<hotkeyVars, trayVars, loopPcm, ignored, npopped, fsAccum, overlap, cfgVars, lifeVars, evVars, clock, is_recording, audio_buffer,
                   last_voice_time, loopFrame, loopSpeech, loopNow, captured,
                   ncallbacks, nfinalized, delivered, excepts>>

\* line 148 and 158: self.recording_buffer.extend(frame)
LoopExtend(k) ==
    /\ loopPc[k] = "extend"
    /\ recording_buffer' = recording_buffer \o loopFrame[k]
    /\ GoTo(k, "top")
    /\ UNCHANGED <<hotkeyVars, trayVars, loopPcm, ignored, npopped, fsAccum, overlap, cfgVars, lifeVars, evVars, clock, is_recording, audio_buffer,
                   last_voice_time, loopFrame, loopSpeech, loopNow, captured,
                   ncallbacks, nfinalized, delivered, excepts>>

\* line 150-158: an unvoiced frame
LoopUnvoiced(k) ==
    /\ loopPc[k] = "unvoiced"
    /\ GoTo(k, IF ~is_recording THEN "top"
               ELSE IF SilenceElapsed(loopNow[k], last_voice_time) THEN "stop_check"
               ELSE "extend")
    /\ UNCHANGED <<hotkeyVars, trayVars, loopPcm, ignored, npopped, fsAccum, overlap, cfgVars, lifeVars, evVars, clock, is_recording, audio_buffer,
                   recording_buffer, last_voice_time, loopFrame, loopSpeech,
                   loopNow, captured, ncallbacks, nfinalized, delivered, excepts>>

\* _stop_recording, line 202-203
LoopStopCheck(k) ==
    /\ loopPc[k] = "stop_check"
    /\ GoTo(k, IF is_recording THEN "stop_set" ELSE "top")
    /\ UNCHANGED <<hotkeyVars, trayVars, loopPcm, ignored, npopped, fsAccum, overlap, cfgVars, lifeVars, evVars, clock, is_recording, audio_buffer,
                   recording_buffer, last_voice_time, loopFrame, loopSpeech,
                   loopNow, captured, ncallbacks, nfinalized, delivered, excepts>>

\* _stop_recording, line 205
LoopStopSet(k) ==
    /\ loopPc[k] = "stop_set"
    /\ is_recording' = FALSE
    /\ GoTo(k, "stop_len")
    /\ UNCHANGED <<hotkeyVars, trayVars, loopPcm, ignored, npopped, fsAccum, overlap, cfgVars, lifeVars, evVars, clock, audio_buffer,
                   recording_buffer, last_voice_time, loopFrame, loopSpeech,
                   loopNow, captured, ncallbacks, nfinalized, delivered, excepts>>

\* _stop_recording, line 211-213, on a processing thread: the thread runs no
\* event loop, so asyncio.create_task raises RuntimeError once audio_data and
\* the coroutine object exist; line 215 is not reached.
LoopStopLen(k) ==
    /\ loopPc[k] = "stop_len"
    /\ IF Len(recording_buffer) > 0
       THEN /\ nfinalized' = nfinalized + 1
            /\ GoTo(k, "except")
       ELSE /\ GoTo(k, "stop_reset")
            /\ UNCHANGED nfinalized
    /\ UNCHANGED <<hotkeyVars, trayVars, loopPcm, ignored, npopped, fsAccum, overlap, cfgVars, lifeVars, evVars, clock, is_recording, audio_buffer,
                   recording_buffer, last_voice_time, loopFrame, loopSpeech,
                   loopNow, captured, ncallbacks, delivered, excepts>>

\* _stop_recording, line 215
LoopStopReset(k) ==
    /\ loopPc[k] = "stop_reset"
    /\ recording_buffer' = <<>>
    /\ GoTo(k, "top")
    /\ UNCHANGED <<hotkeyVars, trayVars, loopPcm, ignored, npopped, fsAccum, overlap, cfgVars, lifeVars, evVars, clock, is_recording, audio_buffer,
                   last_voice_time, loopFrame, loopSpeech, loopNow, captured,
                   ncallbacks, nfinalized, delivered, excepts>>

\* The handler outside the while instead of inside it: the exception ends the
\* thread.
LoopExceptExits(k) ==
    /\ loopPc[k] = "except"
    /\ excepts' = excepts + 1
    /\ GoTo(k, "exited")
    /\ UNCHANGED <<hotkeyVars, trayVars, loopPcm, ignored, npopped, fsAccum, overlap, cfgVars, lifeVars, evVars, clock, is_recording, audio_buffer,
                   recording_buffer, last_voice_time, loopFrame, loopSpeech,
                   loopNow, captured, ncallbacks, nfinalized, delivered>>

\* line 160-162: the exception is logged and the loop goes on
LoopExcept(k) ==
    /\ loopPc[k] = "except"
    /\ excepts' = excepts + 1
    /\ GoTo(k, "top")
    /\ UNCHANGED <<hotkeyVars, trayVars, loopPcm, ignored, npopped, fsAccum, overlap, cfgVars, lifeVars, evVars, clock, is_recording, audio_buffer,
                   recording_buffer, last_voice_time, loopFrame, loopSpeech,
                   loopNow, captured, ncallbacks, nfinalized, delivered>>

----------------------------------------------------------------------------
(* The asyncio thread: force_stop_recording and the _process_audio tasks *)

loopVars == <<loopPc, loopFrame, loopSpeech, loopNow>>

\* force_stop_recording is called on the asyncio thread by something other
\* than the transcription handler (the force-stop signal of the interface)
ForceStopCall ==
    /\ program = "agent"
    /\ evPc = "idle"
    /\ nforce < MaxForceStops
    /\ ~feed.paced
    /\ SignalPoint
    /\ nforce' = nforce + 1
    /\ evPc' = "fs_check"
    /\ overlap' = 0
    /\ UNCHANGED <<hotkeyVars, trayVars, loopPcm, ignored, npopped, fsAccum, cfgVars, lifeVars, loopVars, clock, is_recording, audio_buffer,
                   recording_buffer, last_voice_time, tasks, inflight, captured,
                   ncallbacks, nfinalized, delivered, excepts>>

\* force_stop_recording, line 237
EvFsCheck ==
    /\ evPc = "fs_check"
    /\ evPc' = IF is_recording THEN "stop_check" ELSE "idle"
    /\ overlap' = 0
    /\ fsAccum' = IF is_recording THEN recording_buffer ELSE <<>>
    /\ UNCHANGED <<hotkeyVars, trayVars, loopPcm, ignored, npopped, cfgVars, lifeVars, loopVars, clock, is_recording, audio_buffer,
                   recording_buffer, last_voice_time, tasks, inflight, nforce,
                   captured, ncallbacks, nfinalized, delivered, excepts>>

\* _stop_recording, line 202-203
EvStopCheck ==
    /\ evPc = "stop_check"
    /\ evPc' = IF is_recording THEN "stop_set" ELSE "idle"
    /\ overlap' = 0
    /\ fsAccum' = IF is_recording THEN fsAccum ELSE <<>>
    /\ UNCHANGED <<hotkeyVars, trayVars, loopPcm, ignored, npopped, cfgVars, lifeVars, loopVars, clock, is_recording, audio_buffer,
                   recording_buffer, last_voice_time, tasks, inflight, nforce,
                   captured, ncallbacks, nfinalized, delivered, excepts>>

\* _stop_recording, line 205
EvStopSet ==
    /\ evPc = "stop_set"
    /\ is_recording' = FALSE
    /\ evPc' = "stop_len"
    /\ UNCHANGED <<hotkeyVars, trayVars, loopPcm, ignored, npopped, fsAccum, overlap, cfgVars, lifeVars, loopVars, clock, audio_buffer,
                   recording_buffer, last_voice_time, tasks, inflight, nforce,
                   captured, ncallbacks, nfinalized, delivered, excepts>>

\* _stop_recording, line 211-213, on the asyncio thread: the task is scheduled
EvStopLen ==
    /\ evPc = "stop_len"
    /\ IF Len(recording_buffer) > 0
       THEN /\ nfinalized' = nfinalized + 1
            /\ tasks' = Append(tasks, Snapshot("force"))
       ELSE UNCHANGED <<nfinalized, tasks>>
    /\ evPc' = "stop_reset"
    /\ UNCHANGED <<hotkeyVars, trayVars, loopPcm, ignored, npopped, fsAccum, overlap, cfgVars, lifeVars, loopVars, clock, is_recording, audio_buffer,
                   recording_buffer, last_voice_time, inflight, nforce, captured,
                   ncallbacks, delivered, excepts>>

\* _stop_recording, line 215
EvStopReset ==
    /\ evPc = "stop_reset"
    /\ recording_buffer' = <<>>
    /\ evPc' = "idle"
    /\ overlap' = 0
    /\ fsAccum' = <<>>
    /\ UNCHANGED <<hotkeyVars, trayVars, loopPcm, ignored, npopped, cfgVars, lifeVars, loopVars, clock, is_recording, audio_buffer,
                   last_voice_time, tasks, inflight, nforce, captured, ncallbacks,
                   nfinalized, delivered, excepts>>

\* One invocation of the consumer: what it was given, and how it ended.
Invocation(u) ==
    [id |-> u.id, outcome |-> "running"]

\* An event loop that runs the task scheduled last first.
ProcessAudioNewestFirst ==
    /\ evPc = "idle"
    /\ tasks # <<>>
    /\ tasks' = SubSeq(tasks, 1, Len(tasks) - 1)
    /\ IF TooShort(Len(tasks[Len(tasks)].samples), sample_rate)
       THEN /\ ignored' = ignored + 1
            /\ UNCHANGED <<delivered, inflight>>
       ELSE /\ delivered' = Append(delivered, Invocation(tasks[Len(tasks)]))
            /\ inflight' = inflight \cup {Len(delivered) + 1}
            /\ UNCHANGED ignored
    /\ UNCHANGED <<hotkeyVars, trayVars, loopPcm, npopped, fsAccum, overlap, cfgVars, lifeVars, loopVars, clock, is_recording, audio_buffer,
                   recording_buffer, last_voice_time, evPc, nforce, captured,
                   ncallbacks, nfinalized, excepts>>

\* _process_audio, line 219-230: the event loop runs the next task up to the
\* await of transcription_callback
ProcessAudio ==
    /\ evPc = "idle"
    /\ tasks # <<>>
    /\ tasks' = Tail(tasks)
    /\ IF TooShort(Len(Head(tasks).samples), sample_rate)
       THEN /\ ignored' = ignored + 1
            /\ UNCHANGED <<delivered, inflight>>
       ELSE /\ delivered' = Append(delivered, Invocation(Head(tasks)))
            /\ inflight' = inflight \cup {Len(delivered) + 1}
            /\ UNCHANGED ignored
    /\ UNCHANGED <<hotkeyVars, trayVars, loopPcm, npopped, fsAccum, overlap, cfgVars, lifeVars, loopVars, clock, is_recording, audio_buffer,
                   recording_buffer, last_voice_time, evPc, nforce, captured,
                   ncallbacks, nfinalized, excepts>>

ConsumerOutcomes == {"returned", "raised", "hush"}

\* A dispatcher that gives the utterance to the consumer again when the
\* consumer raised.
ConsumerDoneRetries(i, outcome) ==
    /\ evPc = "idle"
    /\ i \in inflight
    /\ SignalPoint
    /\ IF outcome = "raised"
       THEN /\ delivered' = Append([delivered EXCEPT ![i].outcome = outcome],
                                   [id |-> delivered[i].id, outcome |-> "running"])
            /\ inflight' = (inflight \ {i}) \cup {Len(delivered) + 1}
       ELSE /\ delivered' = [delivered EXCEPT ![i].outcome = outcome]
            /\ inflight' = inflight \ {i}
    /\ evPc' = IF outcome = "hush" THEN "fs_check" ELSE "idle"
    /\ overlap' = 0
    /\ UNCHANGED <<hotkeyVars, trayVars, loopPcm, ignored, npopped, fsAccum, cfgVars, lifeVars, loopVars, clock, is_recording, audio_buffer,
                   recording_buffer, last_voice_time, tasks, nforce, captured,
                   ncallbacks, nfinalized, excepts>>

\* The awaited consumer ends: it returns, it raises (caught at line 232-233 or
\* agent_main.py line 84-85), or it has heard the hush word and calls
\* force_stop_recording (agent_main.py line 70-73).
ConsumerDone(i, outcome) ==
    /\ evPc = "idle"
    /\ i \in inflight
    /\ inflight' = inflight \ {i}
    /\ delivered' = [delivered EXCEPT ![i].outcome = outcome]
    /\ SignalPoint
    /\ evPc' = IF outcome = "hush" THEN "fs_check" ELSE "idle"
    /\ overlap' = 0
    /\ UNCHANGED <<hotkeyVars, trayVars, loopPcm, ignored, npopped, fsAccum, cfgVars, lifeVars, loopVars, clock, is_recording, audio_buffer,
                   recording_buffer, last_voice_time, tasks, nforce, captured,
                   ncallbacks, nfinalized, excepts>>

----------------------------------------------------------------------------
(* The trays: the continuous dictation loop of the GTK tray                  *)
(* (_continuous_dictation_loop) and of the stable tray (_continuous_loop),   *)
(* and their worker threads.  A chunk is stream.read(chunk_samples): 0.1 s   *)
(* of audio, written as one Sample standing for chunk_samples samples of     *)
(* its amplitude.                                                            *)

\* dictation loop threads in one behaviour
MaxTrayStarts == 1
\* toggles of the menu item in one behaviour
MaxToggles == 2
\* stream.read calls in one behaviour of a free microphone
MaxReads == 10
\* changes of amplitude between consecutive chunks of a free microphone
MaxSwitches == 4
\* reads that report an overflow in one behaviour
MaxOverflows == 1
\* amplitude of a chunk of loud noise that is not speech
Noise == 25

\* self.sample_rate = 16000
TrayRate == 16000
\* chunk_duration = 0.1, in ms
chunk_duration == 100
\* GTK tray: self.silence_threshold = 0.015
gtk_silence_threshold == 15
\* GTK tray: self.silence_duration = 1.5, in ms
gtk_silence_duration == 1500
\* GTK tray: self.min_recording_duration = 0.8, in ms
min_recording_duration == 800
\* GTK tray: self.max_recording_duration = 15.0, in ms; no code reads it
max_recording_duration == 15000
\* stable tray: self.silence_threshold = 0.02
stable_silence_threshold == 20
\* stable tray: self.silence_duration = 2.0, in ms
stable_silence_duration == 2000
\* stable tray: self.min_duration = 1.0, in ms
min_duration == 1000
\* stable tray: self.max_duration = 15.0, in ms
max_duration == 15000
\* stable tray: self.max_buffers = 3
max_buffers == 3
\* stable tray: self.cleanup_interval = 30, in ms
cleanup_interval == 30000
\* rms_energy < 0.001 in both workers
quiet_rms == 1

TrayIds == 1..(MaxTrayStarts + MaxTrayRestarts)

\* chunk_samples = int(self.sample_rate * chunk_duration)
chunk_samples == (sample_rate * chunk_duration) \div 1000

\* len(audio_data), in samples, of a recording of n chunks
SamplesOf(n) == n * chunk_samples

TraySilenceThreshold ==
    IF program = "gtk" THEN gtk_silence_threshold ELSE stable_silence_threshold

TraySilenceDuration ==
    IF program = "gtk" THEN gtk_silence_duration ELSE stable_silence_duration

\* GTK tray, line 289: vad_available = False
vad_available == FALSE

\* What a speech classifier makes of a chunk: a loud chunk is speech, unless
\* it is noise.
ClassifierSaysSpeech(amp) == amp = Loud

\* What the vad argument of the GTK detector does with a chunk: "none" when
\* the loop passes None (line 338), "raise" when vad.is_speech is given a
\* frame that is not 10, 20 or 30 ms long (line 451), else its answer.
GtkVad(amp) ==
    IF ~vad_available THEN "none"
    ELSE IF chunk_duration \notin {10, 20, 30} THEN "raise"
    ELSE IF ClassifierSaysSpeech(amp) THEN "speech" ELSE "nonspeech"

\* GTK tray, _detect_voice_activity (line 409-465) for a chunk of one
\* amplitude: energy alone without a classifier or when it raises, else AND.
GtkDetectVoiceActivity(amp, vad) ==
    LET energy_threshold == amp > gtk_silence_threshold
    IN  IF vad \in {"none", "raise"} THEN energy_threshold
        ELSE (vad = "speech") /\ energy_threshold

\* has_voice of a chunk of one amplitude: the detector (GTK, line 338),
\* rms_energy > self.silence_threshold (stable, line 472-473)
HasVoice(amp) ==
    IF program = "gtk" THEN GtkDetectVoiceActivity(amp, GtkVad(amp))
    ELSE amp > TraySilenceThreshold

\* GTK: duration = len(audio_data) / self.sample_rate;
\*      duration < self.min_recording_duration
GtkTooShort(n) == SamplesOf(n) * 1000 < min_recording_duration * sample_rate

\* stable: duration < self.min_duration
StableTooShort(n) == SamplesOf(n) * 1000 < min_duration * sample_rate

\* stable: duration > self.max_duration
StableTooLong(n) == SamplesOf(n) * 1000 > max_duration * sample_rate

\* stable: audio_data[:int(self.max_duration * self.sample_rate)], in chunks
StableTruncate(audio) ==
    LET max_samples == (max_duration * sample_rate) \div 1000
        keep == max_samples \div chunk_samples
    IN  IF Len(audio) <= keep THEN audio ELSE SubSeq(audio, 1, keep)

\* np.sqrt(np.mean(audio_data ** 2)) < 0.001
TooQuiet(audio) == SumSq(audio) < Len(audio) * quiet_rms * quiet_rms

\* np.all(audio_data == 0)
AllZeros(audio) == \A i \in 1..Len(audio) : SampleAmp(audio[i]) = 0

\* The tray object `uptime` ms after its construction, where the behaviour
\* begins (clock = 0): self.last_cleanup = time.time() was then.
InitTrayUp(uptime) ==
    /\ is_continuous = FALSE
    /\ should_stop_continuous = FALSE
    /\ audio_buffer_count = 0
    /\ last_cleanup = -uptime
    /\ trayPc = [t \in TrayIds |-> "none"]
    /\ is_speaking = [t \in TrayIds |-> FALSE]
    /\ silence_start = [t \in TrayIds |-> <<>>]
    /\ tray_audio_buffer = [t \in TrayIds |-> <<>>]
    /\ workers = <<>>
    /\ nreads = 0
    /\ lastAmp = Quiet
    /\ nswitches = 0
    /\ noverflows = 0
    /\ ntoggles = 0
    /\ transcribed = <<>>
    /\ tray_ignored = 0

InitTrayState == InitTrayUp(0)

Started == Cardinality({t \in TrayIds : trayPc[t] # "none"})

\* toggle_continuous_dictation (GTK), toggle_continuous (stable), with the
\* Whisper model loaded, in a behaviour of at most `limit` toggle-on calls
ToggleContinuousUpTo(limit) ==
    /\ program \in {"gtk", "stable"}
    /\ IF is_continuous
       THEN /\ ~feed.paced
            /\ ntoggles < MaxToggles
            /\ is_continuous' = FALSE
            /\ should_stop_continuous' =
                   IF program = "stable" THEN TRUE ELSE should_stop_continuous
            /\ UNCHANGED trayPc
       ELSE /\ Started < limit
            /\ is_continuous' = TRUE
            /\ should_stop_continuous' = FALSE
            /\ trayPc' = [trayPc EXCEPT ![Started + 1] = "opening"]
    /\ ntoggles' = ntoggles + 1
    /\ UNCHANGED <<hotkeyVars, program, feed, clock, agentVars, audio_buffer_count,
                   last_cleanup, is_speaking, silence_start, tray_audio_buffer,
                   workers, nreads, lastAmp, nswitches, noverflows,
                   transcribed, tray_ignored>>

ToggleContinuous == ToggleContinuousUpTo(MaxTrayStarts)

\* The toggle in a behaviour that switches dictation off and on again
ToggleContinuousAgain == ToggleContinuousUpTo(MaxTrayStarts + MaxTrayRestarts)

\* with sd.InputStream(...) as stream: the stream opens, or raises and the
\* thread goes to its finally
TrayOpen(t, ok) ==
    /\ trayPc[t] = "opening"
    /\ trayPc' = [trayPc EXCEPT ![t] = IF ok THEN "top" ELSE "finally"]
    /\ UNCHANGED <<hotkeyVars, program, feed, clock, agentVars, is_continuous,
                   should_stop_continuous, audio_buffer_count, last_cleanup,
                   is_speaking, silence_start, tray_audio_buffer, workers,
                   nreads, lastAmp, nswitches, noverflows, ntoggles,
                   transcribed, tray_ignored>>

\* while self.is_continuous_listening (GTK);
\* while self.is_continuous and not self.should_stop_continuous (stable)
TrayLoopTop(t) ==
    /\ trayPc[t] = "top"
    /\ trayPc' = [trayPc EXCEPT ![t] =
                     IF is_continuous /\ ~should_stop_continuous
                     THEN "read" ELSE "finally"]
    /\ UNCHANGED <<hotkeyVars, program, feed, clock, agentVars, is_continuous,
                   should_stop_continuous, audio_buffer_count, last_cleanup,
                   is_speaking, silence_start, tray_audio_buffer, workers,
                   nreads, lastAmp, nswitches, noverflows, ntoggles,
                   transcribed, tray_ignored>>

\* A worker thread as threading.Thread(...).start() leaves it.
Worker(t, audio) == [audio |-> audio, pc |-> "spawned", by |-> t]

\* The loop starts a worker for the recording: always (GTK), when fewer than
\* max_buffers are counted (stable).
MayStartWorker ==
    program = "gtk" \/ audio_buffer_count < max_buffers

\* One iteration of the loop: stream.read blocks for one chunk, the chunk is
\* classified, and the loop's locals are updated; at the silence timeout the
\* recording goes to a worker thread.
TrayChunk(t, amp, overflowed) ==
    /\ trayPc[t] = "read"
    /\ IF feed.paced
       THEN /\ nreads < ScriptLen
            /\ amp = ScriptAmp(nreads + 1)
            /\ ~overflowed
       ELSE /\ nreads < MaxReads
            /\ amp # lastAmp => nswitches < MaxSwitches
            /\ overflowed => noverflows < MaxOverflows
    /\ nreads' = nreads + 1
    /\ lastAmp' = amp
    /\ nswitches' = IF amp # lastAmp THEN nswitches + 1 ELSE nswitches
    /\ noverflows' = IF overflowed THEN noverflows + 1 ELSE noverflows
    /\ clock' = clock + chunk_duration
    /\ trayPc' = [trayPc EXCEPT ![t] = "top"]
    /\ LET now == clock + chunk_duration
           chunk == Sample(nreads + 1, amp)
           grown == Append(tray_audio_buffer[t], chunk)
           since == IF silence_start[t] = <<>> THEN now ELSE silence_start[t][1]
       IN  IF overflowed
           THEN UNCHANGED <<is_speaking, silence_start, tray_audio_buffer, workers>>
           ELSE IF HasVoice(amp)
           THEN /\ is_speaking' = [is_speaking EXCEPT ![t] = TRUE]
                /\ silence_start' =
                       IF is_speaking[t] THEN silence_start
                       ELSE [silence_start EXCEPT ![t] = <<>>]
                /\ tray_audio_buffer' =
                       [tray_audio_buffer EXCEPT ![t] =
                           IF is_speaking[t] THEN grown ELSE <<chunk>>]
                /\ UNCHANGED workers
           ELSE IF ~is_speaking[t]
           THEN UNCHANGED <<is_speaking, silence_start, tray_audio_buffer, workers>>
           ELSE IF now - since >= TraySilenceDuration
           THEN /\ workers' = IF MayStartWorker
                              THEN Append(workers, Worker(t, grown))
                              ELSE workers
                /\ is_speaking' = [is_speaking EXCEPT ![t] = FALSE]
                /\ silence_start' = [silence_start EXCEPT ![t] = <<>>]
                /\ tray_audio_buffer' = [tray_audio_buffer EXCEPT ![t] = <<>>]
           ELSE /\ silence_start' = [silence_start EXCEPT ![t] = <<since>>]
                /\ tray_audio_buffer' = [tray_audio_buffer EXCEPT ![t] = grown]
                /\ UNCHANGED <<is_speaking, workers>>
    /\ UNCHANGED <<hotkeyVars, program, feed, agentVars, is_continuous,
                   should_stop_continuous, audio_buffer_count, last_cleanup,
                   ntoggles, transcribed, tray_ignored>>

\* finally: the loop clears the listening flag (and the stop flag, stable)
TrayFinally(t) ==
    /\ trayPc[t] = "finally"
    /\ trayPc' = [trayPc EXCEPT ![t] = "exited"]
    /\ is_continuous' = FALSE
    /\ should_stop_continuous' = FALSE
    /\ UNCHANGED <<hotkeyVars, program, feed, clock, agentVars, audio_buffer_count,
                   last_cleanup, is_speaking, silence_start, tray_audio_buffer,
                   workers, nreads, lastAmp, nswitches, noverflows, ntoggles,
                   transcribed, tray_ignored>>

\* _cleanup_memory: the count is reset when it is above 0
CleanupCount(n) == IF n > 0 THEN 0 ELSE n

\* _process_audio_stable up to the validation: the count goes up, and the
\* periodic cleanup runs when it is due.  _process_continuous_audio (GTK) has
\* no such prologue.
WorkerEnter(w) ==
    /\ w \in 1..Len(workers)
    /\ workers[w].pc = "spawned"
    /\ workers' = [workers EXCEPT ![w].pc = "check"]
    /\ IF program = "stable"
       THEN IF clock - last_cleanup > cleanup_interval
            THEN /\ audio_buffer_count' = CleanupCount(audio_buffer_count + 1)
                 /\ last_cleanup' = clock
            ELSE /\ audio_buffer_count' = audio_buffer_count + 1
                 /\ UNCHANGED last_cleanup
       ELSE UNCHANGED <<audio_buffer_count, last_cleanup>>
    /\ UNCHANGED <<hotkeyVars, program, feed, clock, agentVars, is_continuous,
                   should_stop_continuous, trayPc, is_speaking, silence_start,
                   tray_audio_buffer, nreads, lastAmp, nswitches, noverflows,
                   ntoggles, transcribed, tray_ignored>>

\* What the worker gives to whisper_model.transcribe: the recording (GTK), the
\* recording cut to max_duration (stable).
GivenToWhisper(audio) ==
    IF program = "stable" /\ StableTooLong(Len(audio))
    THEN StableTruncate(audio) ELSE audio

\* The worker refuses the recording as too short.
WorkerTooShort(audio) ==
    IF program = "gtk" THEN GtkTooShort(Len(audio)) ELSE StableTooShort(Len(audio))

\* The worker returns before the duration check.
WorkerRejectsEarly(audio) ==
    Len(audio) = 0 \/ (program = "stable" /\ AllZeros(audio))

\* The validation of the worker, up to the call of whisper_model.transcribe
WorkerProcess(w) ==
    /\ w \in 1..Len(workers)
    /\ workers[w].pc = "check"
    /\ LET audio == workers[w].audio
       IN  IF WorkerRejectsEarly(audio)
           THEN /\ workers' = [workers EXCEPT ![w].pc = "exit"]
                /\ UNCHANGED <<transcribed, tray_ignored>>
           ELSE IF WorkerTooShort(audio)
           THEN /\ workers' = [workers EXCEPT ![w].pc = "exit"]
                /\ tray_ignored' = tray_ignored + 1
                /\ UNCHANGED transcribed
           ELSE IF TooQuiet(GivenToWhisper(audio))
           THEN /\ workers' = [workers EXCEPT ![w].pc = "exit"]
                /\ UNCHANGED <<transcribed, tray_ignored>>
           ELSE /\ workers' = [workers EXCEPT ![w].pc = "transcribing"]
                /\ transcribed' = Append(transcribed,
                       [worker |-> w, given |-> GivenToWhisper(audio)])
                /\ UNCHANGED tray_ignored
    /\ UNCHANGED <<hotkeyVars, program, feed, clock, agentVars, is_continuous,
                   should_stop_continuous, audio_buffer_count, last_cleanup,
                   trayPc, is_speaking, silence_start, tray_audio_buffer,
                   nreads, lastAmp, nswitches, noverflows, ntoggles>>

\* The worker ends: transcribe returned or raised, or the validation returned;
\* finally: self.audio_buffer_count -= 1 (stable)
WorkerExit(w) ==
    /\ w \in 1..Len(workers)
    /\ workers[w].pc \in {"transcribing", "exit"}
    /\ workers' = [workers EXCEPT ![w].pc = "done"]
    /\ audio_buffer_count' =
           IF program = "stable" THEN audio_buffer_count - 1 ELSE audio_buffer_count
    /\ UNCHANGED <<hotkeyVars, program, feed, clock, agentVars, is_continuous,
                   should_stop_continuous, last_cleanup, trayPc, is_speaking,
                   silence_start, tray_audio_buffer, nreads, lastAmp, nswitches,
                   noverflows, ntoggles, transcribed, tray_ignored>>

----------------------------------------------------------------------------

InitAgent ==
    /\ program = "agent"
    /\ feed = FreeFeed
    /\ sample_rate = SmallRate
    /\ chunk_size = SmallChunk
    /\ InitAgentState
    /\ InitHotkeyState
    /\ InitTrayState

NextAgent ==
    \/ StartListening
    \/ StopListening
    \/ JoinAudio
    \/ JoinProcessing
    \/ \E k \in LoopIds, ok \in BOOLEAN : OpenStream(k, ok)
    \/ \E k \in LoopIds : CaptureExit(k)
    \/ \E k \in LoopIds, amp \in {Loud, Quiet} : AudioCallback(k, amp)
    \/ Tick
    \/ \E k \in LoopIds : LoopTop(k)
    \/ \E k \in LoopIds : LoopExtract(k)
    \/ \E k \in LoopIds, vad \in VadOutcomes(sample_rate) : LoopDetect(k, vad)
    \/ \E k \in LoopIds : LoopVoiced(k)
    \/ \E k \in LoopIds : LoopStart(k)
    \/ \E k \in LoopIds : LoopStartReset(k)
    \/ \E k \in LoopIds : LoopExtend(k)
    \/ \E k \in LoopIds : LoopUnvoiced(k)
    \/ \E k \in LoopIds : LoopStopCheck(k)
    \/ \E k \in LoopIds : LoopStopSet(k)
    \/ \E k \in LoopIds : LoopStopLen(k)
    \/ \E k \in LoopIds : LoopStopReset(k)
    \/ \E k \in LoopIds : LoopExcept(k)
    \/ ForceStopCall
    \/ EvFsCheck
    \/ EvStopCheck
    \/ EvStopSet
    \/ EvStopLen
    \/ EvStopReset
    \/ ProcessAudio
    \/ \E i \in inflight, o \in ConsumerOutcomes : ConsumerDone(i, o)

SpecAgent == InitAgent /\ [][NextAgent]_vars

\* The overflow configuration: the hardware delivers blocks of more than half
\* the ring.
InitRing ==
    /\ program = "agent"
    /\ feed = FreeFeed
    /\ sample_rate = RingRate
    /\ chunk_size = RingChunk
    /\ InitAgentState
    /\ InitHotkeyState
    /\ InitTrayState

\* The producer and the consumer of the ring: the capture thread and the
\* processing loop of one start_listening, while the wall clock stands still
\* (no silence timeout elapses) and nobody stops or force-stops.
NextRing ==
    \/ StartListening
    \/ \E k \in LoopIds, ok \in BOOLEAN : OpenStream(k, ok)
    \/ \E k \in LoopIds, amp \in {Loud, Quiet} : AudioCallback(k, amp)
    \/ \E k \in LoopIds : LoopTop(k)
    \/ \E k \in LoopIds : LoopExtract(k)
    \/ \E k \in LoopIds, vad \in VadOutcomes(sample_rate) : LoopDetect(k, vad)
    \/ \E k \in LoopIds : LoopVoiced(k)
    \/ \E k \in LoopIds : LoopStart(k)
    \/ \E k \in LoopIds : LoopStartReset(k)
    \/ \E k \in LoopIds : LoopExtend(k)
    \/ \E k \in LoopIds : LoopUnvoiced(k)

SpecRing == InitRing /\ [][NextRing]_vars

\* The default configuration: 16 kHz, a rate the classifier accepts.
InitDefault ==
    /\ program = "agent"
    /\ feed = FreeFeed
    /\ sample_rate = default_sample_rate
    /\ chunk_size = default_chunk_size
    /\ InitAgentState
    /\ InitHotkeyState
    /\ InitTrayState

SpecDefault == InitDefault /\ [][NextRing]_vars

\* The two scripted runs: 0.2 s of speech and 2.5 s of silence, 1.0 s of speech
\* and 2.5 s of silence, in blocks of 0.1 s.
BlipFeed == ScriptFeed(2, 25)
SpeechFeed == ScriptFeed(10, 25)

InitScenario ==
    /\ program = "agent"
    /\ feed \in {BlipFeed, SpeechFeed}
    /\ sample_rate = ScenarioRate
    /\ chunk_size = ScenarioChunk
    /\ InitAgentState
    /\ InitHotkeyState
    /\ InitTrayState

SpecScenario == (InitAgent \/ InitScenario) /\ [][NextAgent]_vars

----------------------------------------------------------------------------

InitTray ==
    /\ program \in {"gtk", "stable"}
    /\ feed = FreeFeed
    /\ sample_rate = TrayRate
    /\ chunk_size = (TrayRate * chunk_duration) \div 1000
    /\ InitAgentState
    /\ InitHotkeyState
    /\ InitTrayState

\* The scripted dictation: 20 s of speech and 2.5 s of silence.
LongFeed == ScriptFeed(200, 25)

InitLongDictation ==
    /\ program \in {"gtk", "stable"}
    /\ feed = LongFeed
    /\ sample_rate = TrayRate
    /\ chunk_size = (TrayRate * chunk_duration) \div 1000
    /\ InitAgentState
    /\ InitHotkeyState
    /\ InitTrayState

NextTray ==
    \/ ToggleContinuous
    \/ \E t \in TrayIds, ok \in BOOLEAN : TrayOpen(t, ok)
    \/ \E t \in TrayIds : TrayLoopTop(t)
    \/ \E t \in TrayIds, amp \in {Loud, Quiet}, o \in BOOLEAN : TrayChunk(t, amp, o)
    \/ \E t \in TrayIds : TrayFinally(t)
    \/ \E w \in 1..Len(workers) : WorkerEnter(w)
    \/ \E w \in 1..Len(workers) : WorkerProcess(w)
    \/ \E w \in 1..Len(workers) : WorkerExit(w)
    \/ Tick

SpecTray == (InitTray \/ InitLongDictation) /\ [][NextTray]_vars

\* The GTK tray in a noisy room: the microphone delivers loud chunks that are
\* not speech.
InitNoisy ==
    /\ program = "gtk"
    /\ feed = FreeFeed
    /\ sample_rate = TrayRate
    /\ chunk_size = (TrayRate * chunk_duration) \div 1000
    /\ InitAgentState
    /\ InitHotkeyState
    /\ InitTrayState

NextNoisy ==
    \/ ToggleContinuous
    \/ \E t \in TrayIds, ok \in BOOLEAN : TrayOpen(t, ok)
    \/ \E t \in TrayIds : TrayLoopTop(t)
    \/ \E t \in TrayIds, amp \in {Loud, Noise, Quiet}, o \in BOOLEAN : TrayChunk(t, amp, o)
    \/ \E t \in TrayIds : TrayFinally(t)

SpecNoisy == InitNoisy /\ [][NextNoisy]_vars

----------------------------------------------------------------------------
(* The three programs *)

Init == InitAgent \/ InitTray

Next == NextAgent \/ NextTray

Spec == Init /\ [][Next]_vars

\* The agent while it listens: start_listening has no matching
\* stop_listening; the force-stop, the event loop and the consumer take part.
NextAgentListening ==
    \/ StartListening
    \/ \E k \in LoopIds, ok \in BOOLEAN : OpenStream(k, ok)
    \/ \E k \in LoopIds, amp \in {Loud, Quiet} : AudioCallback(k, amp)
    \/ Tick
    \/ \E k \in LoopIds : LoopTop(k)
    \/ \E k \in LoopIds : LoopExtract(k)
    \/ \E k \in LoopIds, vad \in VadOutcomes(sample_rate) : LoopDetect(k, vad)
    \/ \E k \in LoopIds : LoopVoiced(k)
    \/ \E k \in LoopIds : LoopStart(k)
    \/ \E k \in LoopIds : LoopStartReset(k)
    \/ \E k \in LoopIds : LoopExtend(k)
    \/ \E k \in LoopIds : LoopUnvoiced(k)
    \/ \E k \in LoopIds : LoopStopCheck(k)
    \/ \E k \in LoopIds : LoopStopSet(k)
    \/ \E k \in LoopIds : LoopStopLen(k)
    \/ \E k \in LoopIds : LoopStopReset(k)
    \/ \E k \in LoopIds : LoopExcept(k)
    \/ ForceStopCall
    \/ EvFsCheck
    \/ EvStopCheck
    \/ EvStopSet
    \/ EvStopLen
    \/ EvStopReset
    \/ ProcessAudio
    \/ \E i \in inflight, o \in ConsumerOutcomes : ConsumerDone(i, o)

\* The trays in front of an input stream that never reports an overflow.
NextTrayListening ==
    \/ ToggleContinuous
    \/ \E t \in TrayIds, ok \in BOOLEAN : TrayOpen(t, ok)
    \/ \E t \in TrayIds : TrayLoopTop(t)
    \/ \E t \in TrayIds, amp \in {Loud, Quiet} : TrayChunk(t, amp, FALSE)
    \/ \E t \in TrayIds : TrayFinally(t)
    \/ \E w \in 1..Len(workers) : WorkerEnter(w)
    \/ \E w \in 1..Len(workers) : WorkerProcess(w)
    \/ \E w \in 1..Len(workers) : WorkerExit(w)
    \/ Tick

\* The three programs while they listen.
NextListening == NextAgentListening \/ NextTrayListening

SpecListening == Init /\ [][NextListening]_vars

----------------------------------------------------------------------------
(* Claims about the agent *)

IsPrefix(a, b) == Len(a) <= Len(b) /\ SubSeq(b, 1, Len(a)) = a

\* A processing loop is taking the audio_data snapshot of a recording that
\* meets the 0.5 s floor.
LoopFinalizesLong(k) ==
    /\ loopPc[k] = "stop_len"
    /\ loopPc'[k] # "stop_len"
    /\ Len(recording_buffer) > 0
    /\ 2 * Len(recording_buffer) >= sample_rate

\* C1: every utterance the processing loop finalizes with a non-empty buffer
\* of at least the minimum duration is handed over for exactly one invocation
\* of transcription_callback carrying its samples: the finalizing step
\* schedules one _process_audio task holding the recording.
C1_FinalizedIsDispatched ==
    [][\A k \in LoopIds :
          LoopFinalizesLong(k) =>
              /\ Len(tasks') = Len(tasks) + 1
              /\ tasks'[Len(tasks')].samples = recording_buffer]_vars

\* C4: a processing loop leaves RECORDING exactly at an unvoiced frame whose
\* processing time is at least silence_duration after last_voice_time, never
\* earlier, and every voiced frame sets last_voice_time to its own processing
\* time (elapsed silence back to zero).
C4_FinalizeAtSilenceTimeout ==
    [][\A k \in LoopIds :
          /\ (loopPc[k] = "unvoiced" /\ loopPc'[k] # "unvoiced" /\ is_recording) =>
                IF loopNow[k] - last_voice_time >= silence_duration
                THEN loopPc'[k] = "stop_check"
                ELSE loopPc'[k] = "extend"
          /\ (loopPc[k] # "stop_check" /\ loopPc'[k] = "stop_check") =>
                /\ loopPc[k] = "unvoiced"
                /\ ~loopSpeech[k]
                /\ loopNow[k] - last_voice_time >= silence_duration
          /\ (loopPc[k] = "voiced" /\ loopPc'[k] # "voiced") =>
                last_voice_time' = loopNow[k]
          /\ (is_recording /\ ~is_recording' /\ loopPc'[k] # loopPc[k]) =>
                loopPc[k] = "stop_set"]_vars

\* C4 witness: the loop is finalizing at an unvoiced frame processed exactly
\* silence_duration after the last voiced one.
C4_Witness ==
    \E k \in LoopIds :
        /\ loopPc[k] = "stop_set"
        /\ ~loopSpeech[k]
        /\ loopNow[k] - last_voice_time = silence_duration
        /\ Len(recording_buffer) > 0

\* C7: force_stop_recording called while RECORDING moves the segmenter to
\* IDLE and dispatches the utterance accumulated so far, if it meets the
\* floor: once its _stop_recording has passed the dispatch (line 211-213), the
\* newest task carries what had been accumulated when the call found
\* RECORDING.
C7_ForceStopDispatches ==
    (evPc = "stop_reset" /\ 2 * Len(fsAccum) >= sample_rate) =>
        /\ tasks # <<>>
        /\ IsPrefix(fsAccum, tasks[Len(tasks)].samples)

\* C9: a consumer that raises leaves the segmenter as it is (is_recording,
\* recording_buffer, last_voice_time, the loops), ends its own invocation only,
\* and is not retried: no task is scheduled for it and no utterance is ever
\* given to the consumer twice.
C9_ConsumerRaiseContained ==
    /\ [][\A i \in 1..Len(delivered) :
             (delivered[i].outcome = "running" /\ delivered'[i].outcome = "raised") =>
                 /\ UNCHANGED <<is_recording, recording_buffer, last_voice_time,
                                loopPc, loopFrame, tasks, stop_event>>
                 /\ evPc' = "idle"
                 /\ inflight' = inflight \ {i}]_vars
    /\ [](\A i, j \in 1..Len(delivered) :
             delivered[i].id = delivered[j].id => i = j)

\* C9 witness: the consumer raised on one utterance and the next one has been
\* given to it.
C9_Witness ==
    \E i \in 1..Len(delivered) :
        /\ delivered[i].outcome = "raised"
        /\ i < Len(delivered)

\* C10: an exception in a frame's processing never ends the loop: the loop
\* goes back to the top of the while, and it exits only when stop_event is set.
C10_LoopSurvivesExceptions ==
    [][\A k \in LoopIds :
          /\ (loopPc[k] = "except" /\ loopPc'[k] # "except") => loopPc'[k] = "top"
          /\ (loopPc[k] # "exited" /\ loopPc'[k] = "exited") =>
                (stop_event /\ loopPc[k] = "top")]_vars

\* C10 witness: after an exception was caught the loop has extracted a later
\* frame.
C10_Witness ==
    \E k \in LoopIds : excepts > 0 /\ loopPc[k] = "detect"

----------------------------------------------------------------------------
(* Claims about the floor, the scripted runs, the cap and the ring *)

\* C2: a recording below the minimum duration (0.5 s in the agent,
\* min_recording_duration in the GTK tray, min_duration in the stable tray) is
\* never given to the transcription consumer: every step that starts a consumer
\* invocation starts it on a recording of at least the minimum duration,
\* whoever finalized it.
C2_BelowFloorNeverDispatched ==
    [][/\ Len(delivered') > Len(delivered) =>
              2 * Len(Head(tasks).samples) >= sample_rate
       /\ Len(transcribed') > Len(transcribed) =>
              LET w == transcribed'[Len(transcribed')].worker
                  samples == Len(workers[w].audio) * chunk_samples
              IN  IF program = "gtk"
                  THEN 10 * samples >= 8 * sample_rate
                  ELSE samples >= sample_rate]_vars

\* C2 witness: the agent has ignored a recording below 0.5 s and has given
\* another one to the consumer.
C2_Witness ==
    program = "agent" /\ ignored > 0 /\ delivered # <<>>

\* The microphone has delivered the whole script and the processing loops
\* have handled all of it.
ScriptOver ==
    /\ feed.paced
    /\ ncallbacks = ScriptLen
    /\ Len(audio_buffer) < frame_size(sample_rate)
    /\ \A k \in LoopIds : ~Ended(loopPc[k]) => loopPc[k] = "top"
    /\ tasks = <<>>

\* C3: 0.2 s of voiced frames and then 2.5 s of unvoiced frames give no
\* dispatched utterance, because the recording stays below the 0.5 s floor: no
\* consumer invocation, and the recording the loop finalizes is below 0.5 s.
C3_BlipStaysBelowFloor ==
    feed = BlipFeed =>
        /\ delivered = <<>>
        /\ \A k \in LoopIds :
               loopPc[k] = "stop_len" => 2 * Len(recording_buffer) < sample_rate

\* C5: 1.0 s of frames above the threshold and then 2.5 s below it give
\* exactly one dispatched utterance of about 1.0 s: the recording the loop
\* finalizes is within one frame of 1.0 s, and at the end of the script the
\* consumer has been invoked exactly once.
C5_OneSecondUtterance ==
    feed = SpeechFeed =>
        /\ \A k \in LoopIds :
               loopPc[k] = "stop_len" =>
                   /\ Len(recording_buffer) >= sample_rate - frame_size(sample_rate)
                   /\ Len(recording_buffer) <= sample_rate + frame_size(sample_rate)
        /\ ScriptOver => Len(delivered) = 1
        /\ Len(delivered) <= 1

\* The cap on the duration of an utterance, in ms.
TrayCap ==
    IF program = "gtk" THEN max_recording_duration ELSE max_duration

\* n chunks last no longer than the cap plus one chunk.
WithinCap(n) ==
    SamplesOf(n) * 1000 <= (TrayCap + chunk_duration) * sample_rate

\* C6: continuous speech longer than the cap is split at the cap: the
\* accumulator of a dictation loop never holds more than the cap plus one
\* chunk, no piece given to the transcription is longer than that, and every
\* chunk of a finalized recording is in the piece given to the transcription
\* (no gap).
C6_SplitAtCap ==
    /\ \A t \in TrayIds : WithinCap(Len(tray_audio_buffer[t]))
    /\ \A i \in 1..Len(transcribed) :
           /\ WithinCap(Len(transcribed[i].given))
           /\ transcribed[i].given = workers[transcribed[i].worker].audio

\* C8: audio_buffer never holds more than sample_rate x 30 samples, it always
\* holds the most recently captured samples in capture order (what is dropped
\* is the oldest), and _audio_callback can run whatever the buffer holds and
\* wherever the processing loops are.
C8_RingKeepsNewest ==
    /\ Len(audio_buffer) <= sample_rate * 30
    /\ \A i \in 1..Len(audio_buffer) :
           SampleId(audio_buffer[i]) = captured - Len(audio_buffer) + i
    /\ \A k \in LoopIds :
           (capPc[k] = "open" /\ ncallbacks < MaxCallbacks /\ ~feed.paced) =>
               ENABLED AudioCallback(k, Loud)

\* C8 witness: a block arrived on a ring too full to take it, and samples the
\* loops had not consumed were discarded.
C8_Witness ==
    /\ Len(audio_buffer) = sample_rate * 30
    /\ captured - npopped > Len(audio_buffer)
    /\ npopped > 0

----------------------------------------------------------------------------
(* Claims about stopping, ordering and the accumulator *)

\* stop_listening has been called and start_listening has not been called
\* since.
Stopped == nstarts > 0 /\ ~is_listening

\* C11: after stop_listening the utterance that was in progress is discarded
\* and never dispatched: while the processor is stopped no step schedules a
\* _process_audio task for a recording that meets the 0.5 s floor (such a task
\* always invokes the consumer).
C11_StoppedUtteranceDiscarded ==
    [][(Stopped /\ Len(tasks') > Len(tasks)) =>
           2 * Len(tasks'[Len(tasks')].samples) < sample_rate]_vars

\* C12: when stop_listening returns, the capture loop and the processing loop
\* have both exited (so the stream is closed, _audio_callback is not invoked
\* and no frame is processed until the next start_listening).
C12_StopJoinsBothLoops ==
    (Stopped /\ evPc = "idle") =>
        \A k \in LoopIds : Ended(capPc[k]) /\ Ended(loopPc[k])

\* The capture index of the first and of the last sample of a recording.
FirstId(audio) == SampleId(audio[1])
LastId(audio) == SampleId(audio[Len(audio)])

LoopStep(k) ==
    \/ LoopTop(k)
    \/ LoopExtract(k)
    \/ \E vad \in VadOutcomes(sample_rate) : LoopDetect(k, vad)
    \/ LoopVoiced(k)
    \/ LoopStart(k)
    \/ LoopStartReset(k)
    \/ LoopExtend(k)
    \/ LoopUnvoiced(k)
    \/ LoopStopCheck(k)
    \/ LoopStopSet(k)
    \/ LoopStopLen(k)
    \/ LoopStopReset(k)
    \/ LoopExcept(k)

\* The processing loop k has nothing to do: no whole frame is buffered (line
\* 130-132), or the behaviour has used up its frames.
LoopIdle(k) ==
    /\ loopPc[k] = "top"
    /\ ~stop_event
    /\ \/ Len(audio_buffer) < frame_size(sample_rate)
       \/ ~feed.paced /\ npopped >= MaxFrames * frame_size(sample_rate)
       \/ evPc \in FsPcs /\ overlap >= MaxOverlap

\* One iteration of the dictation loop t, whatever the microphone delivers.
TrayStep(t) ==
    \/ TrayLoopTop(t)
    \/ \E amp \in {Loud, Quiet}, o \in BOOLEAN : TrayChunk(t, amp, o)

\* The behaviour has used up the reads of the dictation loop.
TrayReadsUsedUp ==
    IF feed.paced THEN nreads >= ScriptLen ELSE nreads >= MaxReads

\* C14: dispatch is fire-and-forget.  While a consumer invocation is running
\* (an awaited transcription_callback in the agent, a worker thread inside
\* whisper in the trays) the segmentation loop can take its next step whenever
\* it has a frame to handle: no step of the loop waits for the invocation.
C14_LoopNeverWaitsForConsumer ==
    /\ inflight # {} =>
           \A k \in LoopIds :
               (~Ended(loopPc[k]) /\ ~LoopIdle(k)) => ENABLED LoopStep(k)
    /\ (\E w \in 1..Len(workers) : workers[w].pc = "transcribing") =>
           \A t \in TrayIds :
               (trayPc[t] \in {"top", "read"} /\ ~TrayReadsUsedUp) => ENABLED TrayStep(t)

\* C14 witness, agent: while a consumer invocation is running the loop has
\* started the next utterance, out of the second block, and is accumulating it.
\* C14 witness, trays: while a worker is inside whisper the loop has started
\* the next utterance, out of chunks read after that worker's recording.
C14_Witness ==
    \/ /\ \E i \in inflight : delivered[i].outcome = "running"
       /\ is_recording
       /\ recording_buffer # <<>>
       /\ FirstId(recording_buffer) > chunk_size
    \/ \E w \in 1..Len(workers), t \in TrayIds :
           /\ workers[w].pc = "transcribing"
           /\ is_speaking[t]
           /\ tray_audio_buffer[t] # <<>>
           /\ FirstId(tray_audio_buffer[t]) > LastId(workers[w].audio)

\* C15: a failure to open the input stream propagates to the caller of
\* start_listening: the processor is never left marked as listening while the
\* capture thread of its last start_listening has ended on the failure.
C15_OpenFailurePropagates ==
    (is_listening /\ nstarts > 0) => capPc[nstarts] \in {"opening", "open"}

\* The processing loop k is handling a frame (line 134-158).
InFrame(k) == loopPc[k] \notin {"none", "top", "exited", "except"}

\* C16: the utterance accumulator has a single writer, the segmentation
\* thread: while a processing loop is handling a frame, every step that
\* writes is_recording or recording_buffer is a step of a processing loop.
C16_AccumulatorSingleWriter ==
    [][((\E k \in LoopIds : InFrame(k))
          /\ (is_recording' # is_recording \/ recording_buffer' # recording_buffer))
       => \E k \in LoopIds : loopPc'[k] # loopPc[k]]_vars

----------------------------------------------------------------------------
(* Claims about the silence timer and the voice detectors *)

\* C17: in both tray loops a voiced chunk refreshes the silence timer, so
\* speech that resumes after a short pause is not cut off by the timer of that
\* pause: the loop never finalizes an utterance at the first non-speech chunk
\* that follows a voiced chunk.
C17_VoicedChunkRefreshesTimer ==
    [][\A t \in TrayIds :
          (is_speaking[t] /\ ~is_speaking'[t]) =>
              ~HasVoice(SampleAmp(tray_audio_buffer[t][Len(tray_audio_buffer[t])]))]_vars

\* The samples of a recording are consecutive captured samples, in capture
\* order.
Contiguous(buf) ==
    \A i \in 1..(Len(buf) - 1) : SampleId(buf[i + 1]) = SampleId(buf[i]) + 1

\* A recording is made of whole frames of the stream and begins with a frame
\* the detector calls speech.
StartsWithVoicedFrame(buf) ==
    /\ Len(buf) % frame_size(sample_rate) = 0
    /\ (FirstId(buf) - 1) % frame_size(sample_rate) = 0
    /\ \E vad \in VadOutcomes(sample_rate) :
           DetectVoiceActivity(SubSeq(buf, 1, frame_size(sample_rate)), vad)

\* C18: every finalized utterance is an ordered, contiguous run of the
\* consumed frames.  The recording a processing loop finalizes begins with the
\* voiced frame that started it and holds every sample popped since, up to the
\* unvoiced frame that ends it; the recording force_stop_recording finalizes
\* is such a run as well; and an unvoiced frame inside the timeout is appended
\* as it is, last_voice_time unchanged.
C18_UtteranceIsContiguousRun ==
    /\ [](\A k \in LoopIds :
             (loopPc[k] = "stop_len" /\ recording_buffer # <<>>) =>
                 /\ Contiguous(recording_buffer)
                 /\ StartsWithVoicedFrame(recording_buffer)
                 /\ LastId(recording_buffer) = npopped - frame_size(sample_rate))
    /\ [](\A i \in 1..Len(tasks) :
             /\ Contiguous(tasks[i].samples)
             /\ StartsWithVoicedFrame(tasks[i].samples))
    /\ [][\A k \in LoopIds :
             /\ (loopPc[k] = "unvoiced" /\ loopPc'[k] = "extend") =>
                    UNCHANGED <<last_voice_time, recording_buffer>>
             /\ (loopPc[k] = "extend" /\ loopPc'[k] # "extend") =>
                    /\ recording_buffer' = recording_buffer \o loopFrame[k]
                    /\ UNCHANGED last_voice_time]_vars

\* C19: _detect_voice_activity uses OR fusion and never raises.  The result
\* the loop gets for a frame is the classifier's answer OR the energy
\* decision, for an answer the classifier can give at this sample rate, it is
\* the energy decision alone when the classifier raises, and the loop goes on
\* to line 141 or 150, never to its exception handler.
C19_DetectorIsOrFusion ==
    [][\A k \in LoopIds :
          (loopPc[k] = "detect" /\ loopPc'[k] # "detect") =>
              /\ loopPc'[k] = IF loopSpeech'[k] THEN "voiced" ELSE "unvoiced"
              /\ \E vad \in VadOutcomes(sample_rate) :
                     loopSpeech'[k] =
                         IF vad = "raise" THEN EnergySpeech(loopFrame[k])
                         ELSE (vad = "speech") \/ EnergySpeech(loopFrame[k])
              /\ EnergySpeech(loopFrame[k]) => loopSpeech'[k]]_vars

\* C19 witness: at 16 kHz the classifier alone has made a frame below the
\* energy threshold a speech frame, and the loop has started a recording on
\* it.
C19_Witness ==
    \E k \in LoopIds :
        /\ sample_rate = default_sample_rate
        /\ loopPc[k] = "extend"
        /\ loopSpeech[k]
        /\ ~EnergySpeech(loopFrame[k])
        /\ is_recording

\* C20: in the GTK tray a chunk counts as speech only when the classifier
\* reports speech and the energy is above the threshold: energy alone neither
\* starts nor extends an utterance.  Every chunk the loop has taken as voiced
\* (the first chunk of the utterance, and every chunk above the threshold
\* that lies before the first pause) is one the classifier calls speech.
C20_BothSignalsAgree ==
    \A t \in TrayIds :
        (program = "gtk" /\ is_speaking[t]) =>
            /\ ClassifierSaysSpeech(SampleAmp(tray_audio_buffer[t][1]))
            /\ silence_start[t] = <<>> =>
                   \A i \in 1..Len(tray_audio_buffer[t]) :
                       ClassifierSaysSpeech(SampleAmp(tray_audio_buffer[t][i]))

----------------------------------------------------------------------------
(* C21: the conversion of float samples to 16-bit PCM *)

\* A microphone driven above full scale: sounddevice delivers float32 samples,
\* which are not confined to [-1, 1].
InitOverdrive ==
    /\ program = "agent"
    /\ feed = FreeFeed
    /\ sample_rate = SmallRate
    /\ chunk_size = SmallChunk
    /\ InitAgentState
    /\ InitHotkeyState
    /\ InitTrayState

NextOverdrive ==
    \/ StartListening
    \/ \E k \in LoopIds, ok \in BOOLEAN : OpenStream(k, ok)
    \/ \E k \in LoopIds, amp \in {Overdriven, -Overdriven, Quiet} :
           AudioCallback(k, amp)
    \/ \E k \in LoopIds : LoopTop(k)
    \/ \E k \in LoopIds : LoopExtract(k)
    \/ \E k \in LoopIds, vad \in VadOutcomes(sample_rate) : LoopDetect(k, vad)
    \/ \E k \in LoopIds : LoopVoiced(k)
    \/ \E k \in LoopIds : LoopStart(k)
    \/ \E k \in LoopIds : LoopStartReset(k)
    \/ \E k \in LoopIds : LoopExtend(k)
    \/ \E k \in LoopIds : LoopUnvoiced(k)

SpecOverdrive == InitOverdrive /\ [][NextOverdrive]_vars

\* C21: the float-to-PCM conversion clamps before it converts: every PCM
\* value handed to the classifier is trunc(clamp(x, -1, 1) * 32767) of its
\* sample x, so it lies in the int16 range and an over-driven sample never
\* wraps around to the opposite sign.
C21_PcmClampsBeforeConverting ==
    \A k \in LoopIds :
        \A i \in 1..Len(loopPcm[k]) :
            loopPcm[k][i] = Scaled(Clip(SampleAmp(loopFrame[k][i])))

\* C22: IDLE implies an empty accumulator: whenever is_recording is False and
\* no frame is in the middle of being processed (every processing loop is
\* between frames and no force_stop_recording is under way),
\* recording_buffer is empty -- after a silence-timeout finalize, after a
\* force-stop at any interleaving, and after an exception in _stop_recording.
C22_IdleImpliesEmptyAccumulator ==
    (/\ ~is_recording
     /\ \A k \in LoopIds : loopPc[k] \in {"none", "top", "exited"}
     /\ evPc \notin FsPcs)
        => recording_buffer = <<>>

----------------------------------------------------------------------------
(* C23: stop_listening followed by start_listening *)

\* The processor is started, stopped and started again in front of a silent
\* microphone: no frame is voiced, no force-stop and no consumer take part.
NextRestart ==
    \/ StartListeningAgain
    \/ StopListening
    \/ JoinAudio
    \/ JoinProcessing
    \/ \E k \in LoopIds, ok \in BOOLEAN : OpenStream(k, ok)
    \/ \E k \in LoopIds : CaptureExit(k)
    \/ \E k \in LoopIds : AudioCallback(k, Quiet)
    \/ Tick
    \/ \E k \in LoopIds : LoopTop(k)
    \/ \E k \in LoopIds : LoopExtract(k)
    \/ \E k \in LoopIds, vad \in VadOutcomes(sample_rate) : LoopDetect(k, vad)
    \/ \E k \in LoopIds : LoopUnvoiced(k)

\* Blocks of two frames.
InitRestart ==
    /\ program = "agent"
    /\ feed = FreeFeed
    /\ sample_rate = SmallRate
    /\ chunk_size = RestartChunk
    /\ InitAgentState
    /\ InitHotkeyState
    /\ InitTrayState

SpecRestart == InitRestart /\ [][NextRestart]_vars

\* A thread that was started and has not ended.
Running(pc) == ~Ended(pc)

\* C23: over any sequence of start_listening and stop_listening calls at most
\* one capture loop and at most one processing loop are running: a loop from
\* before a stop never runs alongside the loops of a later start, also when
\* the bounded join timed out before the old thread saw stop_event.
C23_AtMostOneLoopOfEachKind ==
    /\ Cardinality({k \in LoopIds : Running(capPc[k])}) <= 1
    /\ Cardinality({k \in LoopIds : Running(loopPc[k])}) <= 1

----------------------------------------------------------------------------
(* C24, C25: the worker count of the stable tray *)

\* The stable tray, left idle for longer than cleanup_interval before
\* continuous dictation is switched on.
InitUptime ==
    /\ program = "stable"
    /\ feed = FreeFeed
    /\ sample_rate = TrayRate
    /\ chunk_size = (TrayRate * chunk_duration) \div 1000
    /\ InitAgentState
    /\ InitHotkeyState
    /\ InitTrayUp(Uptime)

\* Four short utterances, each followed by a pause of silence_duration.
BurstFeed == RepeatFeed(1, 21, 4)

InitBurst ==
    /\ program = "stable"
    /\ feed = BurstFeed
    /\ sample_rate = TrayRate
    /\ chunk_size = (TrayRate * chunk_duration) \div 1000
    /\ InitAgentState
    /\ InitHotkeyState
    /\ InitTrayUp(Uptime)

SpecUptime == (InitUptime \/ InitBurst) /\ [][NextTrayListening]_vars

\* The workers between their entry increment and their exit decrement.
InFlight ==
    {w \in 1..Len(workers) : workers[w].pc \in {"check", "transcribing", "exit"}}

\* C24: in the stable tray audio_buffer_count always equals the number of
\* workers between their entry increment and their exit decrement, and is
\* never negative, also when _cleanup_memory runs with workers in flight.
C24_CountEqualsWorkersInFlight ==
    program = "stable" =>
        /\ audio_buffer_count = Cardinality(InFlight)
        /\ audio_buffer_count >= 0

\* C25: in the stable tray the number of concurrently running worker
\* invocations never exceeds max_buffers (3).  Counted are the workers that
\* have executed their entry increment and not yet their exit decrement.
C25_WorkersBoundedByMaxBuffers ==
    program = "stable" => Cardinality(InFlight) <= max_buffers

----------------------------------------------------------------------------
(* C26, C27: continuous dictation switched off and on again *)

\* Either tray in a quiet room: the toggle is used up to three times (on, off,
\* on) while the dictation loops read silent chunks; no utterance begins and
\* no worker is started.
NextRetoggle ==
    \/ ToggleContinuousAgain
    \/ \E t \in TrayIds, ok \in BOOLEAN : TrayOpen(t, ok)
    \/ \E t \in TrayIds : TrayLoopTop(t)
    \/ \E t \in TrayIds, o \in BOOLEAN : TrayChunk(t, Quiet, o)
    \/ \E t \in TrayIds : TrayFinally(t)

SpecRetoggle == InitTray /\ [][NextRetoggle]_vars

\* The dictation loop threads that hold an open input stream and run their
\* while loop.
Capturing == {t \in TrayIds : trayPc[t] \in {"top", "read"}}

\* C26: in either tray at most one dictation loop thread is capturing at any
\* time, also when a toggle-off and a toggle-on both happen before the old
\* loop re-reads its flag.
C26_AtMostOneDictationLoop ==
    Cardinality(Capturing) <= 1

\* C27: a dictation loop started by a toggle-on keeps running until the next
\* toggle-off, shutdown or its own stream error: the finally of an earlier
\* loop never clears the listening flag of the loop started after it.
C27_OldFinallyLeavesNewFlagAlone ==
    [][\A t \in TrayIds :
          (trayPc[t] = "finally" /\ trayPc'[t] = "exited" /\ t < Started)
              => (is_continuous => is_continuous')]_vars

----------------------------------------------------------------------------
(* C28: the hotkey in toggle mode *)

InitHotkey ==
    /\ program = "hotkey"
    /\ feed = FreeFeed
    /\ sample_rate = default_sample_rate
    /\ chunk_size = default_chunk_size
    /\ InitAgentState
    /\ InitHotkeyState
    /\ InitTrayState

NextHotkey ==
    \/ \E key \in Keys : OnKeyPress(key)
    \/ \E key \in Keys : OnKeyRelease(key)

SpecHotkey == InitHotkey /\ [][NextHotkey]_vars

\* C28: in toggle mode one actuation of the hotkey flips voice_active exactly
\* once: the key press that completes the combination flips it, and a further
\* key-press event while the combination is held (auto-repeat of a held key,
\* or one more key going down) does not flip it again.
C28_OneFlipPerActuation ==
    [][(toggle_mode /\ npress' = npress + 1) =>
          IF IsHotkeyPressed(pressed_keys)
          THEN voice_active' = voice_active
          ELSE IsHotkeyPressed(pressed_keys') => voice_active' # voice_active]_vars

----------------------------------------------------------------------------
(* C29: frame extraction from the ring *)

\* Frames of two samples out of a ring that two blocks overflow.
InitFrameRing ==
    /\ program = "agent"
    /\ feed = FreeFeed
    /\ sample_rate = SmallRate
    /\ chunk_size = FrameRingChunk
    /\ InitAgentState
    /\ InitHotkeyState
    /\ InitTrayState

SpecFrameRing == InitFrameRing /\ [][NextRing]_vars

\* The samples of a frame are in capture order.
FifoOrder(frame) ==
    \A i \in 1..(Len(frame) - 1) : SampleId(frame[i]) < SampleId(frame[i + 1])

\* C29: with one capture callback and one processing loop, frame extraction
\* never pops from an empty ring: once the loop has seen frame_size samples
\* buffered, every pop that is left of the frame finds a sample, at any
\* interleaving with the callback's appends (overflowing ones included), so
\* no IndexError is caught; and every frame handed to detection has exactly
\* frame_size samples, in FIFO order.
C29_ExtractionNeverUnderflows ==
    nstarts <= 1 =>
        \A k \in LoopIds :
            /\ loopPc[k] = "extract" =>
                   Len(loopFrame[k]) + Len(audio_buffer) >= frame_size(sample_rate)
            /\ loopPc[k] # "except"
            /\ (InFrame(k) /\ loopPc[k] # "extract") =>
                   Len(loopFrame[k]) = frame_size(sample_rate)
            /\ FifoOrder(loopFrame[k])

\* C29 witness: a whole frame was extracted while an overflowing append of
\* the callback discarded samples between its first and its second pop.
C29_Witness ==
    \E k \in LoopIds :
        /\ loopPc[k] = "detect"
        /\ Len(loopFrame[k]) = frame_size(sample_rate)
        /\ Len(loopFrame[k]) >= 2
        /\ SampleId(loopFrame[k][2]) > SampleId(loopFrame[k][1]) + 1

----------------------------------------------------------------------------
(* C30: the segmenter returns to IDLE *)

\* A step of the processing loop k when nobody force-stops: _stop_recording
\* then always finds a recording, so its line 215 is never reached.
LiveLoopStep(k) ==
    \/ LoopTop(k)
    \/ LoopExtract(k)
    \/ \E vad \in VadOutcomes(sample_rate) : LoopDetect(k, vad)
    \/ LoopVoiced(k)
    \/ LoopStart(k)
    \/ LoopStartReset(k)
    \/ LoopExtend(k)
    \/ LoopUnvoiced(k)
    \/ LoopStopCheck(k)
    \/ LoopStopSet(k)
    \/ LoopStopLen(k)
    \/ LoopExcept(k)

\* The agent in front of a scripted microphone, with nobody stopping or
\* force-stopping it.
NextLive ==
    \/ StartListening
    \/ \E k \in LoopIds, ok \in BOOLEAN : OpenStream(k, ok)
    \/ \E k \in LoopIds, amp \in {Loud, Quiet} : AudioCallback(k, amp)
    \/ \E k \in LoopIds : LiveLoopStep(k)

\* The processing loop is a thread of its own and the callback runs on the
\* audio library's thread: each takes its next step whenever it stays able to.
FairThreads ==
    /\ WF_vars(\E k \in LoopIds : LiveLoopStep(k))
    /\ WF_vars(\E k \in LoopIds, amp \in {Loud, Quiet} : AudioCallback(k, amp))

SpecLive == InitScenario /\ [][NextLive]_vars /\ FairThreads

\* The microphone has delivered the last voiced block of the script: what it
\* captures from here on is silence, for longer than silence_duration.
SpeechOver == feed.paced /\ ncallbacks >= feed.voiced

\* C30: under fair scheduling of the callback and the loop, if the segmenter
\* is RECORDING and from some point on every captured frame is unvoiced (and
\* no stop request arrives), it eventually returns to IDLE.
C30_SilenceEndsRecording ==
    (is_recording /\ SpeechOver) ~> ~is_recording

\* C30 witness: the silence timeout has ended an utterance of the script.
C30_Witness ==
    /\ SpeechOver
    /\ ~is_recording
    /\ nfinalized > 0
    /\ nforce = 0
    /\ \E k \in LoopIds : loopPc[k] = "top"

====
